---- MODULE Spec2Model ----
(***************************************************************************)
(* Model of the LanguageModes registry of the Vue language server          *)
(* (server/src/embeddedSupport/languageModes.ts).                          *)
(*                                                                         *)
(* The registry owns a dialect -> mode map (this.modes), the segmentation  *)
(* cache (this.documentRegions) and the list of model caches               *)
(* (this.modelCaches).  Every synchronous method is one atomic action; the *)
(* asynchronous init() is two actions, split at its single await.          *)
(*                                                                         *)
(* The field `modes` is declared at line 67 without an initializer and the *)
(* constructor (lines 72-79) does not assign it, so its value after        *)
(* construction is the JavaScript value undefined.  Reading or writing a   *)
(* property of undefined raises a TypeError; for-in over undefined runs no *)
(* iteration and raises nothing; delete this.modes leaves it undefined.    *)
(***************************************************************************)
EXTENDS Integers, Sequences, FiniteSets, TLC

(* ------------------------------ bounds --------------------------------- *)

\* number of init() calls a behaviour may contain
MaxInits == 2

\* highest document version an edit may produce
MaxVersion == 3

\* highest position a request may carry
MaxPos == 2

(* --------------------------- dialects and modes ------------------------ *)

\* LanguageId: the keys init() registers, plus 'pug', a dialect the
\* segmenter reports and no line of init() registers
LanguageIds ==
  {"vue", "vue-html", "pug", "css", "postcss", "scss", "less", "stylus",
   "javascript", "typescript", "tsx"}

\* the keys in the order init() assigns them (lines 90-99); for-in enumerates
\* the string keys of an object in insertion order
KeyOrder ==
  <<"vue", "vue-html", "css", "postcss", "scss", "less", "stylus",
    "javascript", "typescript", "tsx">>

InitIds == 1..MaxInits

\* a mode instance: the object a factory returned during the init() call `i`
Inst(kind, i) == [kind |-> kind, init |-> i]

\* the value of this.modes[k] for a key that is not set (JavaScript undefined)
NoMode == [kind |-> "undefined", init |-> 0]

\* the value of this.modes itself when the field is unset or deleted
Undefined == [k \in {} |-> NoMode]

IsUndefined(m) == DOMAIN m = {}

\* the keys a for-in loop over `m` visits, in order; none when m is undefined
ForIn(m) ==
  IF IsUndefined(m) THEN <<>> ELSE SelectSeq(KeyOrder, LAMBDA k : m[k] # NoMode)

\* this.modes[languageId]: a TypeError when this.modes is undefined
ModesAt(m, languageId) ==
  IF IsUndefined(m)
    THEN [raised |-> TRUE, mode |-> NoMode]
    ELSE [raised |-> FALSE, mode |-> m[languageId]]

\* the ten assignments of init(), lines 90-99, made by the init() call `i`
AssignAll(m, i) ==
  [k \in LanguageIds |->
     CASE k = "vue" -> Inst("vue", i)
       [] k = "vue-html" -> Inst("vue-html", i)
       [] k = "css" -> Inst("css", i)
       [] k = "postcss" -> Inst("postcss", i)
       [] k = "scss" -> Inst("scss", i)
       [] k = "less" -> Inst("less", i)
       [] k = "stylus" -> Inst("stylus", i)
       [] k \in {"javascript", "typescript", "tsx"} -> Inst("js", i)
       [] OTHER -> m[k]]

\* the instances the assignments of lines 90-99 construct on the way
\* (vueHtmlMode and jsMode exist before line 90)
BuiltByAssignments(i) ==
  {Inst(k, i) : k \in {"vue", "css", "postcss", "scss", "less", "stylus"}}

\* how many times x occurs in the sequence s
Occ(s, x) == Cardinality({j \in DOMAIN s : s[j] = x})

(* ------------------------------ documents ------------------------------ *)

Uris == {"a.vue"}

Range(languageId, start, end) ==
  [languageId |-> languageId, start |-> start, end |-> end]

\* getVueDocumentRegions(document).getAllLanguageRanges(): the ordered,
\* non-overlapping regions of the snapshot (uri, version)
Regions(uri, version) ==
  CASE version % 3 = 1 ->
         <<Range("vue-html", 0, 1), Range("javascript", 1, 2)>>
    [] version % 3 = 2 ->
         <<Range("pug", 0, 1), Range("typescript", 1, 2), Range("scss", 2, 3)>>
    [] OTHER -> <<>>

\* getLanguageAtPosition: the dialect of the range that holds the position,
\* the root dialect 'vue' when none does
LanguageAtPosition(ranges, pos) ==
  LET hit == {j \in DOMAIN ranges : ranges[j].start <= pos /\ pos < ranges[j].end}
  IN IF hit = {} THEN "vue" ELSE ranges[CHOOSE j \in hit : \A h \in hit : h <= j].languageId

(* ------------------------- the language model cache -------------------- *)

\* getLanguageModelCache(10, 60, ...): no entry, periodic cleanup running
NewCache == [models |-> [u \in Uris |-> 0], timer |-> TRUE]

\* cache.get(document): the entry of the document's uri is the model of the
\* version asked for (recomputed when the cached version differs)
CacheGet(c, uri, version) == [c EXCEPT !.models[uri] = version]

\* cache.onDocumentRemoved(document): the entry is dropped
CacheRemoved(c, uri) == [c EXCEPT !.models[uri] = 0]

\* cache.dispose(): every entry dropped, the periodic cleanup released
CacheDisposed(c) == [models |-> [u \in Uris |-> 0], timer |-> FALSE]

(* ------------------------------- state --------------------------------- *)

VARIABLES
  modes,            \* this.modes
  documentRegions,  \* this.documentRegions
  modelCaches,      \* this.modelCaches: the names of the caches in it
  initPc,           \* position of each init() call
  created,          \* the mode instances constructed so far
  disposeLog,       \* the instances dispose() was invoked on, in order
  disposed,         \* a dispose() call on the registry has returned
  overtaken,        \* the init() calls a dispose() call found suspended
  docVersion,       \* the current version of each document
  last              \* what the call that has just returned did

vars ==
  <<modes, documentRegions, modelCaches, initPc, created, disposeLog,
    disposed, overtaken, docVersion, last>>

\* the lifecycle phase of the registry.  The code keeps no flag for it: the
\* registry is Initializing while an init() call is suspended at its await,
\* Ready once an init() call has run to completion, Disposed once dispose()
\* has returned.
Phase ==
  IF disposed THEN "Disposed"
  ELSE IF \E i \in InitIds : initPc[i] \in {"resolved", "rejected"} THEN "Ready"
  ELSE IF \E i \in InitIds : initPc[i] = "suspended" THEN "Initializing"
  ELSE "Uninitialized"

NoCall ==
  [op |-> "none", streak |-> 0, phase |-> "Uninitialized", raised |-> FALSE,
   uri |-> "-", version |-> 0, pos |-> 0, languageId |-> "-",
   mode |-> NoMode, modesOut |-> <<>>, ranges |-> <<>>,
   cacheCalls |-> 0, fanout |-> <<>>, cachedBefore |-> 0, segVersion |-> 0,
   trace |-> <<>>]

\* how many calls in a row, this one included, were onDocumentRemoved for the
\* same document; counted up to two
Streak(op, fields) ==
  IF op # "onDocumentRemoved" THEN 0
  ELSE IF last.op = op /\ last.uri = fields.uri /\ last.version = fields.version
         THEN 2
  ELSE 1

\* the record of a call: NoCall with the call's own fields replaced
Call(op, fields) ==
  [f \in DOMAIN NoCall |->
     IF f = "op" THEN op
     ELSE IF f = "streak" THEN Streak(op, fields)
     ELSE IF f = "phase" THEN Phase
     ELSE IF f \in DOMAIN fields THEN fields[f]
     ELSE NoCall[f]]

\* the state after the constructor, lines 72-79
Init ==
  /\ modes = Undefined
  /\ documentRegions = NewCache
  /\ modelCaches = <<"documentRegions">>
  /\ initPc = [i \in InitIds |-> "idle"]
  /\ created = {}
  /\ disposeLog = <<>>
  /\ disposed = FALSE
  /\ overtaken = {}
  /\ docVersion = [u \in Uris |-> 1]
  /\ last = NoCall

(* ------------------------------- init() -------------------------------- *)

\* init() with the template engine registered before the await instead of
\* after it
initStart_RegistersEarly(i) ==
  /\ initPc[i] = "idle"
  /\ \A j \in InitIds : j < i => initPc[j] # "idle"
  /\ initPc' = [initPc EXCEPT ![i] = "suspended"]
  /\ created' = created \cup {Inst("vue-html", i)}
  /\ modes' = [k \in LanguageIds |->
                 IF k = "vue-html" THEN Inst("vue-html", i)
                 ELSE IF IsUndefined(modes) THEN NoMode ELSE modes[k]]
  /\ UNCHANGED <<documentRegions, modelCaches, disposeLog, disposed,
                 docVersion>>
  /\ last' = NoCall
  /\ UNCHANGED overtaken

\* init(), lines 81-88, up to the await: vueHtmlMode is built, the
\* construction of the scripting engine is started and init() suspends
initStart(i) ==
  /\ initPc[i] = "idle"
  /\ \A j \in InitIds : j < i => initPc[j] # "idle"
  /\ initPc' = [initPc EXCEPT ![i] = "suspended"]
  /\ created' = created \cup {Inst("vue-html", i)}
  /\ UNCHANGED <<modes, documentRegions, modelCaches, disposeLog, disposed,
                 docVersion>>
  /\ last' = NoCall
  /\ UNCHANGED overtaken

\* init() creating the map when the field is unset: every call then runs the
\* ten assignments
initResume_CreatesMap(i) ==
  /\ initPc[i] = "suspended"
  /\ created' = created \cup {Inst("js", i)} \cup BuiltByAssignments(i)
  /\ initPc' = [initPc EXCEPT ![i] = "resolved"]
  /\ modes' = AssignAll(IF IsUndefined(modes)
                          THEN [k \in LanguageIds |-> NoMode] ELSE modes, i)
  /\ UNCHANGED <<documentRegions, modelCaches, disposeLog, disposed,
                 docVersion>>
  /\ last' = NoCall
  /\ UNCHANGED overtaken

\* init(), lines 83-100, from the await on: jsMode is built, then the ten
\* assignments run without a suspension between them.  With this.modes
\* undefined the first assignment, line 90, raises a TypeError and the
\* promise of init() rejects; an engine evaluates getVueMode() before it
\* raises (rhsFirst) or raises before it evaluates the right-hand side.
initResume(i) ==
  /\ initPc[i] = "suspended"
  /\ IF IsUndefined(modes)
       THEN \E rhsFirst \in BOOLEAN :
              /\ created' = created \cup {Inst("js", i)}
                              \cup (IF rhsFirst THEN {Inst("vue", i)} ELSE {})
              /\ initPc' = [initPc EXCEPT ![i] = "rejected"]
              /\ modes' = modes
       ELSE /\ created' = created \cup {Inst("js", i)} \cup BuiltByAssignments(i)
            /\ initPc' = [initPc EXCEPT ![i] = "resolved"]
            /\ modes' = AssignAll(modes, i)
  /\ UNCHANGED <<documentRegions, modelCaches, disposeLog, disposed,
                 docVersion>>
  /\ last' = NoCall
  /\ UNCHANGED overtaken

(* ------------------------------ dispatch ------------------------------- *)

\* the segmentation a request reads: the model the cache holds after get()
CachedRegions(c, uri) == Regions(uri, c.models[uri])

\* getModeAtPosition reading whatever model is held for the document's uri
\* and asking for a new one only when none is held
getModeAtPosition_ReusesModel(uri, pos) ==
  LET c == IF documentRegions.models[uri] # 0 THEN documentRegions
           ELSE CacheGet(documentRegions, uri, docVersion[uri])
      languageId == LanguageAtPosition(CachedRegions(c, uri), pos)
      r == ModesAt(modes, languageId)
  IN /\ documentRegions' = c
     /\ last' = Call("getModeAtPosition",
                     [uri |-> uri, version |-> docVersion[uri], pos |-> pos,
                      languageId |-> languageId, raised |-> r.raised,
                      mode |-> r.mode,
                      cachedBefore |-> documentRegions.models[uri],
                      segVersion |-> c.models[uri]])
     /\ UNCHANGED <<modes, modelCaches, initPc, created, disposeLog,
                    disposed, docVersion>>
     /\ UNCHANGED overtaken

\* getModeAtPosition, lines 102-105
getModeAtPosition(uri, pos) ==
  LET c == CacheGet(documentRegions, uri, docVersion[uri])
      languageId == LanguageAtPosition(CachedRegions(c, uri), pos)
      r == ModesAt(modes, languageId)
  IN /\ documentRegions' = c
     /\ last' = Call("getModeAtPosition",
                     [uri |-> uri, version |-> docVersion[uri], pos |-> pos,
                      languageId |-> languageId, raised |-> r.raised,
                      mode |-> r.mode,
                      cachedBefore |-> documentRegions.models[uri],
                      segVersion |-> c.models[uri]])
     /\ UNCHANGED <<modes, modelCaches, initPc, created, disposeLog,
                    disposed, docVersion>>
     /\ UNCHANGED overtaken

\* the forEach of lines 112-120 over the ranges that are left: the ranges
\* pushed to result, or the TypeError of this.modes[lr.languageId]
RECURSIVE ModeRanges(_, _)
ModeRanges(m, ranges) ==
  IF ranges = <<>>
    THEN [raised |-> FALSE, out |-> <<>>]
    ELSE LET lr == Head(ranges)
             r == ModesAt(m, lr.languageId)
             rest == ModeRanges(m, Tail(ranges))
         IN IF r.raised \/ rest.raised
              THEN [raised |-> TRUE, out |-> <<>>]
              ELSE [raised |-> FALSE,
                    out |-> (IF r.mode # NoMode
                               THEN <<[mode |-> r.mode,
                                       languageId |-> lr.languageId,
                                       start |-> lr.start, end |-> lr.end]>>
                               ELSE <<>>) \o rest.out]

\* getAllLanguageModeRangesInDocument, lines 107-123
getAllLanguageModeRangesInDocument(uri) ==
  LET c == CacheGet(documentRegions, uri, docVersion[uri])
      r == ModeRanges(modes, CachedRegions(c, uri))
  IN /\ documentRegions' = c
     /\ last' = Call("getAllLanguageModeRangesInDocument",
                     [uri |-> uri, version |-> docVersion[uri],
                      raised |-> r.raised, ranges |-> r.out,
                      cachedBefore |-> documentRegions.models[uri],
                      segVersion |-> c.models[uri]])
     /\ UNCHANGED <<modes, modelCaches, initPc, created, disposeLog,
                    disposed, docVersion>>
     /\ UNCHANGED overtaken

\* the modes a for-in loop over `m` reaches, one per key, in key order
ModesOfKeys(m) == [j \in 1..Len(ForIn(m)) |-> m[ForIn(m)[j]]]

\* the result of getAllModes, lines 126-133: one push per key with a mode
AllModesOf(m) == SelectSeq(ModesOfKeys(m), LAMBDA x : x # NoMode)

\* getAllModes, lines 125-134
getAllModes ==
  /\ last' = Call("getAllModes", [modesOut |-> AllModesOf(modes)])
  /\ UNCHANGED <<modes, documentRegions, modelCaches, initPc, created,
                 disposeLog, disposed, docVersion>>
  /\ UNCHANGED overtaken

\* getMode, lines 136-138
getMode(languageId) ==
  LET r == ModesAt(modes, languageId)
  IN /\ last' = Call("getMode",
                     [languageId |-> languageId, raised |-> r.raised,
                      mode |-> r.mode])
     /\ UNCHANGED <<modes, documentRegions, modelCaches, initPc, created,
                    disposeLog, disposed, docVersion>>
     /\ UNCHANGED overtaken

(* ------------------------------ lifecycle ------------------------------ *)

\* onDocumentRemoved taking each cache out of modelCaches as it notifies it:
\* a call that finds the list empty raises
onDocumentRemoved_ConsumesCaches(uri) ==
  /\ documentRegions' =
       IF modelCaches # <<>> THEN CacheRemoved(documentRegions, uri)
       ELSE documentRegions
  /\ modelCaches' = <<>>
  /\ last' = Call("onDocumentRemoved",
                  [uri |-> uri, version |-> docVersion[uri],
                   raised |-> modelCaches = <<>>,
                   cacheCalls |-> Len(modelCaches),
                   fanout |-> ModesOfKeys(modes)])
  /\ UNCHANGED <<modes, initPc, created, disposeLog, disposed, docVersion>>
  /\ UNCHANGED overtaken

\* onDocumentRemoved, lines 140-145: every cache of modelCaches drops the
\* document, then the hook of this.modes[k] runs for every key k
onDocumentRemoved(uri) ==
  /\ documentRegions' =
       IF \E j \in DOMAIN modelCaches : modelCaches[j] = "documentRegions"
         THEN CacheRemoved(documentRegions, uri)
         ELSE documentRegions
  /\ last' = Call("onDocumentRemoved",
                  [uri |-> uri, version |-> docVersion[uri],
                   cacheCalls |-> Len(modelCaches),
                   fanout |-> ModesOfKeys(modes)])
  /\ UNCHANGED <<modes, modelCaches, initPc, created, disposeLog, disposed,
                 docVersion>>
  /\ UNCHANGED overtaken

\* the modes dispose() is invoked on by the loop of lines 150-152 when the
\* dispose() of the failAt-th one raises (failAt = 0: none raises)
Invoked(ms, failAt) == IF failAt = 0 THEN ms ELSE SubSeq(ms, 1, failAt)

\* the effects of dispose() in the order lines 148-153 produce them
DisposeTrace(mc, ms, failAt) ==
  [j \in 1..Len(mc) |-> "cache.dispose"]
    \o [j \in 1..Len(Invoked(ms, failAt)) |-> "mode.dispose"]
    \o (IF failAt = 0 THEN <<"delete modes">> ELSE <<>>)

\* dispose() with the field modes deleted before anything else
dispose_DropsMapFirst ==
  /\ documentRegions' =
       IF \E j \in DOMAIN modelCaches : modelCaches[j] = "documentRegions"
         THEN CacheDisposed(documentRegions)
         ELSE documentRegions
  /\ modelCaches' = <<>>
  /\ disposeLog' = disposeLog
  /\ modes' = Undefined
  /\ disposed' = TRUE
  /\ overtaken' = overtaken \cup {i \in InitIds : initPc[i] = "suspended"}
  /\ last' = Call("dispose",
                  [cacheCalls |-> Len(modelCaches),
                   trace |-> <<"delete modes">>
                               \o [j \in 1..Len(modelCaches) |-> "cache.dispose"]])
  /\ UNCHANGED <<initPc, created, docVersion>>

\* dispose() leaving an empty map in place of the deleted field
dispose_ResetsMap ==
  /\ documentRegions' =
       IF \E j \in DOMAIN modelCaches : modelCaches[j] = "documentRegions"
         THEN CacheDisposed(documentRegions)
         ELSE documentRegions
  /\ modelCaches' = <<>>
  /\ disposeLog' = disposeLog \o ModesOfKeys(modes)
  /\ modes' = [k \in LanguageIds |-> NoMode]
  /\ disposed' = TRUE
  /\ overtaken' = overtaken \cup {i \in InitIds : initPc[i] = "suspended"}
  /\ last' = Call("dispose",
                  [cacheCalls |-> Len(modelCaches),
                   fanout |-> ModesOfKeys(modes),
                   trace |-> DisposeTrace(modelCaches, ModesOfKeys(modes), 0)])
  /\ UNCHANGED <<initPc, created, docVersion>>

\* dispose, lines 147-154: every cache of modelCaches is disposed, the list
\* is emptied, dispose() runs on this.modes[k] for every key k, and the
\* field modes is deleted.  The dispose() of a mode is code of the engine and
\* may raise: the loop stops there, the exception leaves dispose() and line
\* 153 does not run.
dispose ==
  \E failAt \in 0..Len(ModesOfKeys(modes)) :
    /\ documentRegions' =
         IF \E j \in DOMAIN modelCaches : modelCaches[j] = "documentRegions"
           THEN CacheDisposed(documentRegions)
           ELSE documentRegions
    /\ modelCaches' = <<>>
    /\ disposeLog' = disposeLog \o Invoked(ModesOfKeys(modes), failAt)
    /\ modes' = IF failAt = 0 THEN Undefined ELSE modes
    /\ disposed' = (disposed \/ failAt = 0)
    /\ overtaken' = IF failAt = 0
                      THEN overtaken \cup {i \in InitIds : initPc[i] = "suspended"}
                      ELSE overtaken
    /\ last' = Call("dispose",
                    [raised |-> failAt # 0,
                     cacheCalls |-> Len(modelCaches),
                     fanout |-> Invoked(ModesOfKeys(modes), failAt),
                     trace |-> DisposeTrace(modelCaches, ModesOfKeys(modes),
                                            failAt)])
    /\ UNCHANGED <<initPc, created, docVersion>>

(* ----------------------------- environment ----------------------------- *)

\* the editor edits a document: the next snapshot has the next version
edit(uri) ==
  /\ docVersion[uri] < MaxVersion
  /\ docVersion' = [docVersion EXCEPT ![uri] = @ + 1]
  /\ UNCHANGED <<modes, documentRegions, modelCaches, initPc, created,
                 disposeLog, disposed>>
  /\ last' = NoCall
  /\ UNCHANGED overtaken

\* the periodic cleanup of the cache drops an entry that was not used for
\* the configured time, or the capacity policy evicts it
cacheCleanup(uri) ==
  /\ documentRegions.timer
  /\ documentRegions.models[uri] # 0
  /\ documentRegions' = CacheRemoved(documentRegions, uri)
  /\ UNCHANGED <<modes, modelCaches, initPc, created, disposeLog, disposed,
                 docVersion>>
  /\ last' = NoCall
  /\ UNCHANGED overtaken

Positions == 0..MaxPos

Next ==
  \/ \E i \in InitIds : initStart(i)
  \/ \E i \in InitIds : initResume(i)
  \/ \E u \in Uris, p \in Positions : getModeAtPosition(u, p)
  \/ \E u \in Uris : getAllLanguageModeRangesInDocument(u)
  \/ getAllModes
  \/ \E d \in LanguageIds : getMode(d)
  \/ \E u \in Uris : onDocumentRemoved(u)
  \/ dispose
  \/ \E u \in Uris : edit(u)
  \/ \E u \in Uris : cacheCleanup(u)

Spec == Init /\ [][Next]_vars

(* ============================== properties ============================= *)

\* the dialect ids init() registers, lines 90-99
Registered == {KeyOrder[j] : j \in DOMAIN KeyOrder}

Scripting == {"javascript", "typescript", "tsx"}

\* an init() call that has run to completion
Completed(i) == initPc[i] \in {"resolved", "rejected"}

\* the mode instances constructed by the init() calls that have completed
Built == {x \in created : Completed(x.init)}

NoDuplicates(s) == \A a, b \in DOMAIN s : a # b => s[a] # s[b]

C2_EveryModeDisposedOnce ==
  (last.op = "dispose" /\ last.phase = "Ready") =>
    \A x \in Built : Occ(disposeLog, x) = 1

\* C3: a call made after dispose() has returned raises nothing and returns
\* nothing: no mode, no modes, no ranges, and no hook is invoked.
C3_DisposedCallsAreNoOps ==
  (last.op # "none" /\ last.phase = "Disposed") =>
    /\ ~last.raised
    /\ last.mode = NoMode
    /\ last.modesOut = <<>>
    /\ last.ranges = <<>>
    /\ last.fanout = <<>>

\* C4: before init() is called no mode is registered, and a dispatch call
\* raises nothing and finds nothing: no mode, no modes, no ranges.
C4_UninitializedFindsNothing ==
  (last.op \in {"getMode", "getModeAtPosition", "getAllModes",
                "getAllLanguageModeRangesInDocument"}
   /\ last.phase = "Uninitialized") =>
    /\ ~last.raised
    /\ last.mode = NoMode
    /\ last.modesOut = <<>>
    /\ last.ranges = <<>>

\* C5: once an init() call has run to completion (and dispose() has not been
\* called) its promise has resolved, every dialect id init() registers
\* resolves to a mode instance, and javascript, typescript and tsx resolve
\* to the identical instance.
C5_ReadyResolvesEveryDialect ==
  Phase = "Ready" =>
    /\ \E i \in InitIds : initPc[i] = "resolved"
    /\ \A d \in Registered :
         ~ModesAt(modes, d).raised /\ ModesAt(modes, d).mode # NoMode
    /\ ModesAt(modes, "javascript").mode = ModesAt(modes, "typescript").mode
    /\ ModesAt(modes, "typescript").mode = ModesAt(modes, "tsx").mode

\* what a dispatch call returned: whether it raised, and its result
Outcome(c) ==
  [raised |-> c.raised, mode |-> c.mode, modesOut |-> c.modesOut,
   ranges |-> c.ranges]

\* what the same call returns on the registry the constructor leaves behind
UninitializedOutcome(c) ==
  CASE c.op = "getMode" ->
         [raised |-> ModesAt(Undefined, c.languageId).raised,
          mode |-> ModesAt(Undefined, c.languageId).mode,
          modesOut |-> <<>>, ranges |-> <<>>]
    [] c.op = "getModeAtPosition" ->
         LET d == LanguageAtPosition(Regions(c.uri, c.version), c.pos)
         IN [raised |-> ModesAt(Undefined, d).raised,
             mode |-> ModesAt(Undefined, d).mode,
             modesOut |-> <<>>, ranges |-> <<>>]
    [] c.op = "getAllModes" ->
         [raised |-> FALSE, mode |-> NoMode,
          modesOut |-> AllModesOf(Undefined), ranges |-> <<>>]
    [] OTHER ->
         [raised |-> ModeRanges(Undefined, Regions(c.uri, c.version)).raised,
          mode |-> NoMode, modesOut |-> <<>>,
          ranges |-> ModeRanges(Undefined, Regions(c.uri, c.version)).out]

DispatchOps ==
  {"getMode", "getModeAtPosition", "getAllModes",
   "getAllLanguageModeRangesInDocument"}

\* C6: the registry is never partially populated (no dialect of init()'s set
\* has a mode, or all of them have one), and a dispatch call made while
\* init() is suspended returns what the same call returns before init().
C6_InitWindowIsUninitialized ==
  /\ \/ IsUndefined(modes)
     \/ \A d \in Registered : modes[d] = NoMode
     \/ \A d \in Registered : modes[d] # NoMode
  /\ (last.op \in DispatchOps /\ last.phase = "Initializing") =>
       Outcome(last) = UninitializedOutcome(last)

\* C6 witness: a dispatch call has returned while an init() call is suspended
\* after building its template engine.
C6_Witness ==
  /\ last.op \in DispatchOps
  /\ last.phase = "Initializing"
  /\ \E i \in InitIds : initPc[i] = "suspended" /\ Inst("vue-html", i) \in created

\* C7: a getModeAtPosition call in the Ready state raises nothing and returns
\* exactly what getMode returns for the dialect the segmenter reports at the
\* position (undefined when that dialect has no registered mode).
C7_DispatchRoundTrip ==
  (last.op = "getModeAtPosition" /\ last.phase = "Ready") =>
    /\ ~last.raised
    /\ last.languageId =
         LanguageAtPosition(Regions(last.uri, last.version), last.pos)
    /\ ~ModesAt(modes, last.languageId).raised
    /\ last.mode = ModesAt(modes, last.languageId).mode

\* the ranges of `ranges` whose dialect has a mode in `m`, in order, each with
\* that mode
WithRegisteredMode(m, ranges) ==
  LET keep == SelectSeq(ranges,
                        LAMBDA lr : ~IsUndefined(m) /\ m[lr.languageId] # NoMode)
  IN [j \in 1..Len(keep) |->
        [mode |-> m[keep[j].languageId], languageId |-> keep[j].languageId,
         start |-> keep[j].start, end |-> keep[j].end]]

\* C8: a getAllLanguageModeRangesInDocument call in the Ready state raises
\* nothing and returns exactly the segmenter's ranges whose dialect has a
\* registered mode, in the original order, each paired with the mode of its
\* dialect.
C8_RangesFilteredInOrder ==
  (last.op = "getAllLanguageModeRangesInDocument" /\ last.phase = "Ready") =>
    /\ ~last.raised
    /\ last.ranges = WithRegisteredMode(modes, Regions(last.uri, last.version))

\* what a caller can observe of the registry and of the segmentation cache
Observable == <<modes, documentRegions, modelCaches, created, disposeLog>>

\* C9: in the Ready state the second of two onDocumentRemoved calls in a row
\* for the same document raises nothing and leaves the registry and the
\* segmentation cache as the first call left them.
C9_RemovalIdempotent ==
  [][(last.streak = 1 /\ last'.streak = 2 /\ last'.phase = "Ready") =>
       (~last'.raised /\ Observable' = Observable)]_vars

\* C9 witness: onDocumentRemoved has returned twice in a row for a document
\* in the Ready state, the first call having found the cache registered.
C9_Witness ==
  /\ last.op = "onDocumentRemoved"
  /\ last.streak = 2
  /\ last.phase = "Ready"
  /\ last.cacheCalls = 1
  /\ documentRegions.models[last.uri] = 0

\* C10: an onDocumentRemoved call in the Ready state invokes the removal hook
\* of the segmentation cache once and the cleanup hook of every mode instance
\* init() constructed exactly once.
C10_RemovalOncePerInstance ==
  (last.op = "onDocumentRemoved" /\ last.phase = "Ready") =>
    /\ last.cacheCalls = 1
    /\ \A x \in Built : Occ(last.fanout, x) = 1

SegmentingOps == {"getModeAtPosition", "getAllLanguageModeRangesInDocument"}

\* C12: a query for version v2 of a document whose segmentation is cached
\* for an older version v1 reads the segmentation of v2: the model it reads
\* and the entry it leaves are those of v2, and the dialect it looks up is
\* the one v2 has at the position.
C12_NewerVersionReplacesCached ==
  (last.op \in SegmentingOps
   /\ 0 < last.cachedBefore /\ last.cachedBefore < last.version) =>
    /\ last.segVersion = last.version
    /\ documentRegions.models[last.uri] = last.version
    /\ last.op = "getModeAtPosition" =>
         last.languageId =
           LanguageAtPosition(Regions(last.uri, last.version), last.pos)

\* C12 witness: a position query for v2 has returned on a cache that held
\* v1 < v2, at a position where the two versions differ in dialect.
C12_Witness ==
  /\ last.op = "getModeAtPosition"
  /\ 0 < last.cachedBefore /\ last.cachedBefore < last.version
  /\ last.languageId #
       LanguageAtPosition(Regions(last.uri, last.cachedBefore), last.pos)

C15_DisposedIsTerminal ==
  disposed =>
    /\ AllModesOf(modes) = <<>>
    /\ \A d \in LanguageIds : ModesAt(modes, d).mode = NoMode
    /\ last.op = "getAllModes" /\ last.phase = "Disposed" => last.modesOut = <<>>
    /\ last.op \in {"getMode", "getModeAtPosition"} /\ last.phase = "Disposed"
         => last.mode = NoMode

\* C15 witness: dispose() has returned while an init() call was suspended,
\* and that init() call has since run to completion.
C15_Witness ==
  /\ disposed
  /\ \E i \in overtaken : Completed(i)

\* C16: once dispose() has returned and no init() call is left suspended,
\* every mode instance an init() call constructed (the template and the
\* scripting engine of lines 82-88 included) has had its dispose() invoked.
C16_BuiltModesDisposed ==
  (disposed /\ \A i \in InitIds : initPc[i] # "suspended") =>
    \A x \in created : Occ(disposeLog, x) >= 1

====
